---- MODULE Spec2Model ----
(***************************************************************************)
(* Meeting-prep orchestration pipeline of exec_assistant:                  *)
(*   calendar_monitor.lambda_handler   (Scan Coordinator)                  *)
(*   calendar_monitor.process_user_calendar / sync_meeting_to_dynamodb /   *)
(*   emit_prep_trigger_event            (Sync Engine)                      *)
(*   meeting_classifier.MeetingClassifier (Classifier)                     *)
(*   prep_trigger_handler.lambda_handler (Trigger Handler)                 *)
(*   notification_service.NotificationService (Notifier)                   *)
(* Time is counted in hours.  The meetings table is a keyed store with     *)
(* full-item put; every store call, calendar fetch, event publish and      *)
(* channel send may fail.                                                  *)
(***************************************************************************)
EXTENDS Integers, Sequences, FiniteSets, TLC

(* ------------------------------ bounds -------------------------------- *)
\* last hour of the modelled clock
MaxTime == 2
\* number of scans (calendar_monitor invocations) in one behaviour
MaxScans == 2
\* number of Trigger Handler invocations in one behaviour
MaxInvocations == 2
\* number of infrastructure faults (store, calendar, event bus) in one behaviour
MaxFaults == 1
\* longest title, largest attendee count and latest start hour of the
\* meetings given to the classifier on its own
MaxTitleLen == 3
MaxAttendees == 4
MaxStart == 4

(* --------------------------- Python's None ---------------------------- *)
NoTime == 0 - 1
NoId == "none"
NoBound == 0 - 1
NoItem == [absent |-> TRUE]

(* ------------------------------ models.py ----------------------------- *)
MeetingType ==
    {"leadership_team", "one_on_one", "reliability_review", "qbr",
     "executive_staff", "interview_debrief", "vendor_meeting", "unknown"}

MeetingStatus ==
    {"discovered", "classified", "prep_scheduled", "prep_in_progress",
     "prep_completed", "completed", "cancelled"}

NotificationChannel == {"slack", "sms", "email"}

(* --------------------- configuration (agents.yaml) -------------------- *)
\* meeting_coordinator.meeting_type_detection, in file order
DetectionRules ==
    << [type_name |-> "leadership_team", keywords |-> << <<"l", "t">> >>,
        min_attendees |-> 3, max_attendees |-> NoBound],
       [type_name |-> "one_on_one", keywords |-> << <<"1", "1">>, <<"1", ":", "1">> >>,
        min_attendees |-> NoBound, max_attendees |-> 2],
       [type_name |-> "staff", keywords |-> << <<"s">> >>,
        min_attendees |-> NoBound, max_attendees |-> NoBound],
       [type_name |-> "executive_staff", keywords |-> << <<"l", "t">>, <<"s">> >>,
        min_attendees |-> NoBound, max_attendees |-> NoBound] >>

\* meeting_coordinator.prep_timing, hours before the start
PrepTiming ==
    [t \in {"leadership_team", "one_on_one", "unknown"} |->
        CASE t = "leadership_team" -> 2
          [] t = "one_on_one" -> 1
          [] OTHER -> 2]

\* CALENDAR_LOOKAHEAD_DAYS, in hours
LookaheadHours == 14 * 24

(* -------------------------- MeetingClassifier ------------------------- *)
\* str.lower() on one character
LowerChar(c) ==
    CASE c = "L" -> "l"
      [] c = "T" -> "t"
      [] c = "S" -> "s"
      [] OTHER -> c

Lower(s) == [i \in 1..Len(s) |-> LowerChar(s[i])]

\* Python's  k in t  on strings
IsSubstring(k, t) ==
    \E i \in 1..(Len(t) - Len(k) + 1) : SubSeq(t, i, i + Len(k) - 1) = k

KeywordMatch(rules, title) ==
    \E j \in 1..Len(rules.keywords) : IsSubstring(Lower(rules.keywords[j]), title)

\* the attendee bounds are not looked at
KeywordOnly(rules, title, attendee_count) ==
    /\ rules.type_name \in MeetingType
    /\ KeywordMatch(rules, title)

RuleMatches(rules, title, attendee_count) ==
    /\ rules.type_name \in MeetingType
    /\ KeywordMatch(rules, title)
    /\ ~(rules.min_attendees # NoBound /\ attendee_count < rules.min_attendees)
    /\ ~(rules.max_attendees # NoBound /\ attendee_count > rules.max_attendees)

\* the first rule whose keyword matches decides, whatever its attendee bounds say
RECURSIVE StopAtKeywordMatch(_, _, _)
StopAtKeywordMatch(i, title, attendee_count) ==
    IF i > Len(DetectionRules) THEN "unknown"
    ELSE IF KeywordOnly(DetectionRules[i], title, attendee_count)
         THEN IF RuleMatches(DetectionRules[i], title, attendee_count)
              THEN DetectionRules[i].type_name
              ELSE "unknown"
         ELSE StopAtKeywordMatch(i + 1, title, attendee_count)

RECURSIVE ClassifyFrom(_, _, _)
ClassifyFrom(i, title, attendee_count) ==
    IF i > Len(DetectionRules) THEN "unknown"
    ELSE IF RuleMatches(DetectionRules[i], title, attendee_count)
         THEN DetectionRules[i].type_name
         ELSE ClassifyFrom(i + 1, title, attendee_count)

classify_meeting(meeting) ==
    LET title == Lower(meeting.title)
        attendee_count == Len(meeting.attendees)
    IN  IF title = <<>> THEN "unknown" ELSE ClassifyFrom(1, title, attendee_count)

\* an unconfigured type gets 24 hours, whatever unknown is configured to
DefaultsTo24(prep_timing, meeting_type) ==
    IF meeting_type \in DOMAIN prep_timing THEN prep_timing[meeting_type] ELSE 24

\* get_prep_hours of a classifier whose configuration has this prep_timing
GetPrepHours(prep_timing, meeting_type) ==
    IF meeting_type \in DOMAIN prep_timing
    THEN prep_timing[meeting_type]
    ELSE IF "unknown" \in DOMAIN prep_timing THEN prep_timing["unknown"] ELSE 24

get_prep_hours(meeting_type) == GetPrepHours(PrepTiming, meeting_type)

\* the window with its end included
WindowClosedAtStart(meeting, current_time) ==
    LET prep_trigger_time == meeting.start_time - get_prep_hours(meeting.meeting_type)
    IN  prep_trigger_time <= current_time /\ current_time <= meeting.start_time

should_trigger_prep(meeting, current_time) ==
    LET prep_hours == get_prep_hours(meeting.meeting_type)
        prep_trigger_time == meeting.start_time - prep_hours
    IN  prep_trigger_time <= current_time /\ current_time < meeting.start_time

(* --------------------- the calendar source (Google) ------------------- *)
CalendarEvents == {"e1", "e2"}

EventTitle(e) == IF e = "e1" THEN <<"L", "T", " ", "x">> ELSE <<"1", "1">>
EventAttendees(e) == IF e = "e1" THEN <<"a", "b", "c">> ELSE <<"a", "b">>
EventStart(e) == IF e = "e1" THEN 2 ELSE 3
EventEnd(e) == EventStart(e) + 1

UserIds == {"u1", "u2"}

MeetingIdOf(e) == IF e = "e1" THEN "gcal-e1" ELSE "gcal-e2"
MeetingIds == {MeetingIdOf(e) : e \in CalendarEvents}

\* CalendarClient._event_to_meeting: a Meeting with the model's defaults.
\* notification_id and notification_sent_at are the optional fields that
\* prep_trigger_handler reads and stamps and tests/test_models.py exercises;
\* the Meeting class of shared/models.py does not declare them, and they are
\* modelled as declared, with default None.  The same holds for phone_number
\* of User.
event_to_meeting(e, user_id, t) ==
    [meeting_id |-> MeetingIdOf(e),
     external_id |-> e,
     user_id |-> user_id,
     title |-> EventTitle(e),
     start_time |-> EventStart(e),
     end_time |-> EventEnd(e),
     attendees |-> EventAttendees(e),
     meeting_type |-> "unknown",
     status |-> "discovered",
     prep_hours_before |-> NoTime,
     chat_session_id |-> NoId,
     created_at |-> t,
     notification_id |-> NoId,
     notification_sent_at |-> NoTime]

\* CalendarClient.fetch_upcoming_meetings(days_ahead): the events that end
\* after now and start before now + days_ahead
fetch_upcoming_meetings(primary, user_id, t) ==
    LET InRange(e) == EventEnd(e) > t /\ EventStart(e) < t + LookaheadHours
        evs == SelectSeq(primary, InRange)
    IN  [i \in 1..Len(evs) |-> event_to_meeting(evs[i], user_id, t)]

(* ------------------------------ the users ----------------------------- *)
\* an item of the users table
User(u, connected) ==
    [user_id |-> u,
     calendar_connected |-> connected,
     phone_number |-> IF u = "u1" THEN "+1555" ELSE NoId]

(* ------------------------------ the worlds ---------------------------- *)
\* one user with one meeting; the second user has not connected a calendar
SoloUsers == [u \in UserIds |-> User(u, u = "u1")]
SoloCalendar == [u \in UserIds |-> IF u = "u1" THEN <<"e1">> ELSE <<>>]

\* the same, the first user having given no phone number
SoloUsersNoPhone == [SoloUsers EXCEPT !["u1"].phone_number = NoId]

\* two users who attend a common meeting; the first has a second meeting, the
\* second has connected a calendar or not
TeamUsers(connected) == [u \in UserIds |-> User(u, u = "u1" \/ connected)]
TeamCalendar == [u \in UserIds |-> IF u = "u1" THEN <<"e1", "e2">> ELSE <<"e2">>]

(* ------------------------------- state -------------------------------- *)
VARIABLES
    users,      \* the users table (read-only for the pipeline)
    calendar,   \* the calendar source: each user's primary calendar
    now,        \* the wall clock, in hours
    meetings,   \* the meetings table: meeting_id -> item, or NoItem
    bus,        \* PrepTriggerEvents published and deliverable (at least once)
    scan,       \* the running calendar_monitor invocation
    scans,      \* number of scans started
    hs,         \* the Trigger Handler invocations, one per slot
    invocations,\* number of Trigger Handler invocations started
    faults,     \* number of infrastructure faults injected so far
    notifier,   \* a call of NotificationService.send_prep_notification
    classifier, \* a call of a MeetingClassifier method
    hist        \* history: what was published, sent and delivered, per meeting

vars == <<users, calendar, now, meetings, bus, scan, scans, hs, invocations, faults,
          notifier, classifier, hist>>

Handlers == {"h1", "h2"}

\* direct: process_user_calendar was called for one user, not by
\* lambda_handler; trace is history: the users listed, and per user the sync
\* begun, the calendar fetch, the puts, the publishes and the way it ended
ScanIdle ==
    [pc |-> "idle", users |-> <<>>, user |-> NoId, batch |-> <<>>,
     current_time |-> NoTime, meeting |-> NoItem, existing_meeting |-> NoItem,
     users_processed |-> 0, meetings_synced |-> 0, preps_triggered |-> 0,
     errors |-> 0, user_synced |-> 0, user_triggered |-> 0,
     response |-> NoItem, direct |-> FALSE, trace |-> <<>>]

\* loaded, read_failed, ops, alone, prev and seen are history: the meeting as
\* read, whether a read of the store raised, the log
\* of store writes and channel attempts, whether the invocation ran with no
\* scan, click or other invocation beside it, the invocation that ran alone
\* just before it, and the number of publishes it started after
HandlerIdle ==
    [pc |-> "idle", event |-> NoItem, meeting |-> NoItem, user |-> NoItem,
     loaded |-> NoItem, read_failed |-> FALSE, channels |-> <<>>, enabled |-> {},
     result |-> NoItem, response |-> NoItem, ops |-> <<>>,
     alone |-> FALSE, prev |-> NoItem, seen |-> 0]

\* published, calls, delivered: PrepTriggerEvents published, Notifier calls
\* and channel deliveries per meeting; first_created: created_at of the first
\* stored row; failed: meetings with a Notifier call in which every channel
\* failed; buttons: meetings with a delivered Slack message; pending:
\* meetings whose last published event no invocation has run to completion on;
\* orderly: every scan so far started with every calendar meeting inside its
\* prep window, no invocation running and nothing pending; last: the last
\* invocation that ran alone, until a scan or a click follows it; stopped:
\* meetings with an invocation that ended between the status write and the
\* first delivery; unstamped: meetings with a delivery whose stamp could not
\* be saved; lost: meetings whose last publish failed; recovered: meetings
\* published after a failed publish
\* a call of the Notifier made on its own: its arguments, the channels its
\* NotificationService has enabled, what each provider does, and the result
NotifierIdle ==
    [pc |-> "idle", user |-> NoItem, channels |-> <<>>, enabled |-> {},
     outcome |-> <<>>, result |-> NoItem]

\* a call of classify_meeting, get_prep_hours or should_trigger_prep made on
\* its own: the method, its arguments, the prep_timing section of the
\* classifier's configuration, and the value returned
ClassifierIdle ==
    [pc |-> "idle", op |-> NoId, meeting |-> NoItem, meeting_type |-> NoId,
     current_time |-> NoTime, prep_timing |-> <<>>, result |-> NoItem]

HistInit ==
    [published |-> [m \in MeetingIds |-> 0],
     calls |-> [m \in MeetingIds |-> 0],
     delivered |-> [m \in MeetingIds |-> 0],
     first_created |-> [m \in MeetingIds |-> NoTime],
     failed |-> {},
     stopped |-> {},
     unstamped |-> {},
     lost |-> {},
     recovered |-> {},
     buttons |-> {},
     pending |-> {},
     orderly |-> TRUE,
     last |-> NoItem]

Init ==
    /\ users = SoloUsers
    /\ calendar = SoloCalendar
    /\ now = 0
    /\ meetings = [m \in MeetingIds |-> NoItem]
    /\ bus = {}
    /\ scan = ScanIdle
    /\ scans = 0
    /\ hs = [h \in Handlers |-> HandlerIdle]
    /\ invocations = 0
    /\ faults = 0
    /\ notifier = NotifierIdle
    /\ classifier = ClassifierIdle
    /\ hist = HistInit

\* An invocation that has computed its response returns at once: the return
\* touches nothing shared, so no other step is taken in between.
Returning ==
    \/ scan.pc = "done"
    \/ scan.pc = "meeting" /\ scan.batch = <<>>
    \/ scan.pc = "next_user" /\ scan.users = <<>>
    \/ \E h \in Handlers : hs[h].pc = "done"

\* the results an external call can have: TRUE = it succeeds
Oks == IF faults < MaxFaults THEN BOOLEAN ELSE {TRUE}
Fault(ok) == IF ok THEN 0 ELSE 1

\* time passes
Tick ==
    /\ ~Returning
    /\ scan.pc = "idle"
    /\ now < MaxTime
    /\ now' = now + 1
    /\ UNCHANGED <<classifier, notifier, users, calendar, meetings, bus, scan, scans, hs, invocations, hist, faults>>

(* ----------------- calendar_monitor: the Scan Coordinator -------------- *)
\* get_connected_users: the users with calendar_connected = true, in any of
\* the orders the table scan may return them
get_connected_users ==
    LET S == {u \in UserIds : users[u].calendar_connected}
    IN  {s \in [1..Cardinality(S) -> S] : {s[i] : i \in DOMAIN s} = S}

ScanResponse(s) ==
    [statusCode |-> 200,
     users_processed |-> s.users_processed,
     meetings_synced |-> s.meetings_synced,
     preps_triggered |-> s.preps_triggered,
     errors |-> s.errors]

\* a failed listing answered like a scan that found no user
EmptySummary ==
    [statusCode |-> 200, users_processed |-> 0, meetings_synced |-> 0,
     preps_triggered |-> 0, errors |-> 0]

\* lines 124-138: the response of lambda_handler's outer "except Exception"
ScanFailed == [statusCode |-> 500, message |-> "calendar monitor failed"]

\* lines 284-296: classification of the fetched meeting, in memory
Classified(meeting, current_time) ==
    LET meeting_type == classify_meeting(meeting)
    IN  [meeting EXCEPT
            !.meeting_type = meeting_type,
            !.status = IF @ = "discovered" THEN "classified" ELSE @,
            !.prep_hours_before = get_prep_hours(meeting_type)]

\* history: at time t every meeting of every calendar is inside its prep window
AllInWindow(t) ==
    \A u \in UserIds : \A i \in 1..Len(calendar[u]) :
        should_trigger_prep(Classified(event_to_meeting(calendar[u][i], u, t), t), t)

\* history: some other step begins beside the running invocations
NotAlone(handlers) == [h \in Handlers |-> [handlers[h] EXCEPT !.alone = FALSE]]

\* lambda_handler, up to the user loop: the scan of the users table may fail
ScanStart ==
    /\ ~Returning
    /\ scan.pc = "idle"
    /\ scans < MaxScans
    /\ scans' = scans + 1
    /\ \E scan_ok \in Oks, listed \in get_connected_users :
          /\ faults' = faults + Fault(scan_ok)
          /\ scan' = IF scan_ok
                     THEN [ScanIdle EXCEPT !.pc = "next_user", !.users = listed,
                                           !.trace = <<[op |-> "list", users |-> listed]>>]
                     ELSE [ScanIdle EXCEPT !.pc = "done", !.response = ScanFailed]
    /\ hs' = NotAlone(hs)
    /\ hist' = [hist EXCEPT
                  !.orderly = /\ @
                              /\ AllInWindow(now)
                              /\ hist.pending = {}
                              /\ \A h \in Handlers : hs[h].pc = "idle",
                  !.last = NoItem]
    /\ UNCHANGED <<classifier, notifier, users, calendar, now, meetings, bus, invocations>>

\* history: one more entry in the trace of the scan
Logged(s, entry) == [s EXCEPT !.trace = Append(@, entry)]

\* process_user_calendar returns its two counters: to lambda_handler, whose
\* lines 81-84 add them to the summary, or to the direct caller
AfterUser(s) ==
    LET result == [meetings_synced |-> s.user_synced,
                   preps_triggered |-> s.user_triggered]
        t == [Logged(s, [op |-> "return", user |-> s.user, result |-> result])
                EXCEPT !.user = NoId, !.current_time = NoTime,
                       !.user_synced = 0, !.user_triggered = 0]
    IN  IF s.direct
        THEN [t EXCEPT !.pc = "done", !.response = result]
        ELSE [t EXCEPT !.pc = "next_user",
                       !.users_processed = @ + 1,
                       !.meetings_synced = @ + result.meetings_synced,
                       !.preps_triggered = @ + result.preps_triggered]

\* the exception leaves lambda_handler with its 500 response
AbortScan(s) ==
    [Logged(s, [op |-> "raise", user |-> s.user])
        EXCEPT !.pc = "done", !.user = NoId, !.response = ScanFailed]

\* process_user_calendar raises: lambda_handler, lines 96-101, counts the
\* error and goes on with the next user; a direct caller gets the exception
AfterUserError(s) ==
    LET t == [Logged(s, [op |-> "raise", user |-> s.user]) EXCEPT !.user = NoId]
    IN  IF s.direct
        THEN [t EXCEPT !.pc = "done", !.response = [raised |-> "CalendarError"]]
        ELSE [t EXCEPT !.pc = "next_user", !.errors = @ + 1]

\* a user without a connected calendar is synced like any other
NeverSkips(user) == FALSE

\* line 235: the user has no calendar connected
SkipsUser(user) == ~user.calendar_connected

\* process_user_calendar, up to the meeting loop: a user without a calendar
\* gives the zero result at once; the calendar fetch may fail, and the failure
\* is re-raised
ProcessUserBegin ==
    /\ ~Returning
    /\ scan.pc = "next_user"
    /\ scan.users # <<>>
    /\ LET user == users[Head(scan.users)]
           s == Logged([scan EXCEPT !.users = Tail(@),
                                    !.user = user.user_id,
                                    !.user_synced = 0,
                                    !.user_triggered = 0],
                       [op |-> "sync", user |-> user.user_id])
       IN  IF SkipsUser(user)
           THEN /\ faults' = faults
                /\ scan' = AfterUser(s)
           ELSE \E fetch_ok \in Oks :
                LET batch == fetch_upcoming_meetings(calendar[user.user_id],
                                                     user.user_id, now)
                    fetched == [i \in 1..Len(batch) |-> batch[i].meeting_id]
                    t == Logged(s, [op |-> "fetch", user |-> user.user_id,
                                    ok |-> fetch_ok,
                                    meetings |-> IF fetch_ok THEN fetched ELSE <<>>])
                IN  /\ faults' = faults + Fault(fetch_ok)
                    /\ scan' = IF fetch_ok
                               THEN [t EXCEPT !.pc = "meeting",
                                              !.batch = batch,
                                              !.current_time = now]
                               ELSE AfterUserError(t)
    /\ UNCHANGED <<classifier, notifier, users, calendar, now, meetings, bus, scans, hs, invocations, hist>>

\* sync_meeting_to_dynamodb, lines 369-391: the lookup by meeting_id; a
\* ClientError of get_item is swallowed and leaves existing_meeting = None
SyncLookup ==
    /\ ~Returning
    /\ scan.pc = "meeting"
    /\ scan.batch # <<>>
    /\ LET meeting == Classified(Head(scan.batch), scan.current_time)
       IN  \E get_ok \in Oks :
              /\ faults' = faults + Fault(get_ok)
              /\ scan' = [scan EXCEPT
                            !.pc = "put",
                            !.meeting = meeting,
                            !.existing_meeting =
                                IF get_ok THEN meetings[meeting.meeting_id] ELSE NoItem]
    /\ UNCHANGED <<classifier, notifier, users, calendar, now, meetings, bus, scans, hs, invocations, hist>>

\* sync_meeting_to_dynamodb, lines 393-410: created_at of the item to write
WithCreatedAt(meeting, existing_meeting, t) ==
    IF existing_meeting = NoItem
    THEN [meeting EXCEPT !.created_at = t]
    ELSE [meeting EXCEPT !.created_at = existing_meeting.created_at]

\* the loop goes on with the next meeting of the batch
NextMeeting(s) ==
    [s EXCEPT !.pc = "meeting", !.batch = Tail(@),
              !.meeting = NoItem, !.existing_meeting = NoItem]

\* the first failure ends the user's batch
DropBatch(s) == [NextMeeting(s) EXCEPT !.batch = <<>>]

\* the trigger check made although the meeting's processing failed
TriggerAnyway(s) == [s EXCEPT !.pc = "trigger"]

\* lines 337-345: an exception while a meeting is processed is logged and
\* the loop continues
AfterMeetingError(s) == NextMeeting(s)

\* sync_meeting_to_dynamodb, lines 412-414: full-item put; a failure skips the
\* rest of this meeting's processing (except at line 337)
SyncPut ==
    /\ ~Returning
    /\ scan.pc = "put"
    /\ LET item == WithCreatedAt(scan.meeting, scan.existing_meeting, now)
       IN  \E put_ok \in Oks :
              LET s == Logged(scan, [op |-> "put", user |-> scan.user,
                                     meeting |-> item.meeting_id, ok |-> put_ok])
              IN  /\ faults' = faults + Fault(put_ok)
                  /\ IF put_ok
                     THEN /\ meetings' = [meetings EXCEPT ![item.meeting_id] = item]
                          /\ scan' = [s EXCEPT !.pc = "trigger",
                                               !.meeting = item,
                                               !.user_synced = @ + 1]
                          /\ hist' = [hist EXCEPT
                                        !.first_created[item.meeting_id] =
                                            IF meetings[item.meeting_id] = NoItem
                                            THEN item.created_at ELSE @]
                     ELSE /\ meetings' = meetings
                          /\ scan' = AfterMeetingError(s)
                          /\ hist' = hist
    /\ UNCHANGED <<classifier, notifier, users, calendar, now, bus, scans, hs, invocations>>

\* emit_prep_trigger_event: the event detail
PrepTriggerEvent(meeting) ==
    [meeting_id |-> meeting.meeting_id,
     user_id |-> meeting.user_id,
     meeting_type |-> meeting.meeting_type,
     start_time |-> meeting.start_time,
     title |-> meeting.title]

\* a publish only in the scan that finds the window just opened
EmitAtWindowOpening(meeting, current_time) ==
    /\ current_time = meeting.start_time - get_prep_hours(meeting.meeting_type)
    /\ meeting.status \in {"discovered", "classified"}

\* lines 310-313: the decision to publish, on the in-memory meeting
ShouldEmit(meeting, current_time) ==
    /\ should_trigger_prep(meeting, current_time)
    /\ meeting.status \in {"discovered", "classified"}

\* lines 310-335: the trigger check and the publish, which may fail
SyncTrigger ==
    /\ ~Returning
    /\ scan.pc = "trigger"
    /\ LET meeting == scan.meeting
       IN  IF ShouldEmit(meeting, scan.current_time)
           THEN \E emit_ok \in Oks :
                  LET s == Logged(scan, [op |-> "publish", user |-> scan.user,
                                         meeting |-> meeting.meeting_id,
                                         ok |-> emit_ok])
                  IN  /\ faults' = faults + Fault(emit_ok)
                      /\ IF emit_ok
                         THEN /\ bus' = bus \cup {PrepTriggerEvent(meeting)}
                              /\ hist' = [hist EXCEPT
                                            !.published[meeting.meeting_id] = @ + 1,
                                            !.pending = @ \cup {meeting.meeting_id},
                                            !.lost = @ \ {meeting.meeting_id},
                                            !.recovered =
                                                IF meeting.meeting_id \in hist.lost
                                                THEN @ \cup {meeting.meeting_id} ELSE @]
                              /\ scan' = [NextMeeting(s) EXCEPT !.user_triggered = @ + 1]
                         ELSE /\ scan' = AfterMeetingError(s)
                              /\ hist' = [hist EXCEPT !.lost = @ \cup {meeting.meeting_id}]
                              /\ UNCHANGED bus
           ELSE /\ scan' = NextMeeting(scan)
                /\ UNCHANGED <<bus, hist, faults>>
    /\ UNCHANGED <<classifier, notifier, users, calendar, now, meetings, scans, hs, invocations>>

\* process_user_calendar returns at the end of the batch
ProcessUserReturn ==
    /\ scan.pc = "meeting"
    /\ scan.batch = <<>>
    /\ scan' = AfterUser(scan)
    /\ UNCHANGED <<classifier, notifier, users, calendar, now, meetings, bus, scans, hs, invocations, hist, faults>>

\* lambda_handler lines 103-122: the summary
ScanFinish ==
    /\ scan.pc = "next_user"
    /\ scan.users = <<>>
    /\ scan' = [scan EXCEPT !.pc = "done", !.response = ScanResponse(scan)]
    /\ UNCHANGED <<classifier, notifier, users, calendar, now, meetings, bus, scans, hs, invocations, hist, faults>>

\* the invocation ends
ScanReturn ==
    /\ scan.pc = "done"
    /\ scan' = ScanIdle
    /\ UNCHANGED <<classifier, notifier, users, calendar, now, meetings, bus, scans, hs, invocations, hist, faults>>

(* ------------------- notification_service: the Notifier --------------- *)
\* what a channel provider does with one send
ProviderOutcomes(channel) ==
    IF channel = "email" THEN {"ok", "error"} ELSE {"ok", "ok_no_id", "error"}

EmptyId == ""

\* the provider reference of a delivered message: Slack's ts, Twilio's sid
\* (both "" when the field is missing from the response), SES's MessageId
ProviderMessageId(channel, outcome) ==
    IF outcome = "ok_no_id" THEN EmptyId
    ELSE CASE channel = "slack" -> "ts-1"
           [] channel = "sms" -> "SM-1"
           [] OTHER -> "ses-1"

\* what a provider can do when the Notifier is called on its own: also a
\* request that times out
CallOutcomes(channel) == ProviderOutcomes(channel) \cup {"timeout"}

\* the phone number is not looked at
RaisesOnProviderFailureOnly(channel, user, outcome) ==
    outcome \in {"error", "timeout"}

\* _send_slack_notification / _send_sms_notification / _send_email_notification:
\* TRUE when the call raises
SendRaises(channel, user, outcome) ==
    \/ channel = "sms" /\ user.phone_number = NoId
    \/ outcome \in {"error", "timeout"}

\* str(e) of the exception raised
ErrorText(channel, user, outcome) ==
    IF channel = "sms" /\ user.phone_number = NoId THEN "User has no phone number"
    ELSE IF outcome = "timeout" THEN "timed out"
    ELSE CASE channel = "slack" -> "Slack API error"
           [] channel = "sms" -> "Twilio API error"
           [] OTHER -> "SES API error"

\* the list is taken as given, whatever is configured
Unfiltered(channels, enabled) == channels

\* _is_channel_enabled, and the filter of line 159
AvailableChannels(channels, enabled) ==
    LET IsEnabled(ch) == ch \in enabled
    IN  SelectSeq(channels, IsEnabled)

NoResult ==
    [delivered_channels |-> <<>>, failed_channels |-> <<>>, message_id |-> NoId,
     attempted |-> <<>>]

\* a channel that raised recorded as failed and as delivered
FailedCountedAsDelivered(acc, channel, error_msg) ==
    [acc EXCEPT
        !.failed_channels =
            [ch \in DOMAIN @ \cup {channel} |-> IF ch = channel THEN error_msg ELSE @[ch]],
        !.delivered_channels = Append(@, channel)]

\* the entry failed_channels[channel] = error_msg of line 220
WithFailure(acc, channel, error_msg) ==
    [acc EXCEPT !.failed_channels =
        [ch \in DOMAIN @ \cup {channel} |-> IF ch = channel THEN error_msg ELSE @[ch]]]

\* the loop without the break after a delivery
RECURSIVE SendLoopNoBreak(_, _, _, _, _)
SendLoopNoBreak(available, i, user, outcome, acc) ==
    IF i > Len(available) THEN acc
    ELSE LET channel == available[i]
             tried == [acc EXCEPT !.attempted = Append(@, channel)]
         IN  IF SendRaises(channel, user, outcome[channel])
             THEN SendLoopNoBreak(available, i + 1, user, outcome,
                                  WithFailure(tried, channel,
                                              ErrorText(channel, user, outcome[channel])))
             ELSE SendLoopNoBreak(available, i + 1, user, outcome,
                                  [tried EXCEPT
                                     !.delivered_channels = Append(@, channel),
                                     !.message_id =
                                         IF @ = NoId
                                         THEN ProviderMessageId(channel, outcome[channel])
                                         ELSE @])

\* lines 181-229: the loop over the available channels; failed_channels maps
\* each channel that raised to its error text
RECURSIVE SendLoop(_, _, _, _, _)
SendLoop(available, i, user, outcome, acc) ==
    IF i > Len(available) THEN acc
    ELSE LET channel == available[i]
             tried == [acc EXCEPT !.attempted = Append(@, channel)]
         IN  IF SendRaises(channel, user, outcome[channel])
             THEN SendLoop(available, i + 1, user, outcome,
                           WithFailure(tried, channel,
                                       ErrorText(channel, user, outcome[channel])))
             ELSE [tried EXCEPT
                     !.delivered_channels = Append(@, channel),
                     !.message_id = IF @ = NoId
                                    THEN ProviderMessageId(channel, outcome[channel])
                                    ELSE @]

\* a result without delivery reported as partial
PartialWhenUndelivered(delivered_channels) ==
    IF delivered_channels # <<>> THEN "success" ELSE "partial"

\* lines 231-243
ResultStatus(delivered_channels) ==
    IF delivered_channels # <<>> THEN "success" ELSE "failed"

\* NotificationService.send_prep_notification; raised = ValueError("No
\* notification channels available or enabled")
send_prep_notification(user, channels, enabled, outcome) ==
    LET available == AvailableChannels(channels, enabled)
    IN  IF available = <<>>
        THEN [raised |-> TRUE, available |-> available, status |-> "failed",
              delivered_channels |-> <<>>, failed_channels |-> <<>>,
              message_id |-> NoId, attempted |-> <<>>]
        ELSE LET r == SendLoop(available, 1, user, outcome, NoResult)
             IN  [raised |-> FALSE, available |-> available,
                  status |-> ResultStatus(r.delivered_channels),
                  delivered_channels |-> r.delivered_channels,
                  failed_channels |-> r.failed_channels,
                  message_id |-> r.message_id,
                  attempted |-> r.attempted]

(* ---------------- prep_trigger_handler: the Trigger Handler ----------- *)
\* events that reach the handler without coming from a publish
MalformedEvents ==
    { [meeting_id |-> NoId, user_id |-> "u1", meeting_type |-> "unknown",
       start_time |-> NoTime, title |-> <<>>],
      [meeting_id |-> "gcal-e1", user_id |-> NoId, meeting_type |-> "unknown",
       start_time |-> NoTime, title |-> <<>>],
      [meeting_id |-> "gcal-e1", user_id |-> "u9", meeting_type |-> "unknown",
       start_time |-> NoTime, title |-> <<>>],
      [meeting_id |-> "gcal-e9", user_id |-> "u1", meeting_type |-> "unknown",
       start_time |-> NoTime, title |-> <<>>] }

Response(code, message) == [statusCode |-> code, message |-> message]

AlreadySent == Response(200, "Notification already sent")
InvalidState == Response(200, "Meeting already processed or in invalid state")
Sent == Response(200, "Prep notification sent successfully")
ValidationError == Response(400, "ValidationError")
InternalError == Response(500, "InternalError")

\* fetch_meeting / fetch_user: the item, or None
fetch_meeting(meeting_id) ==
    IF meeting_id \in DOMAIN meetings THEN meetings[meeting_id] ELSE NoItem

fetch_user(user_id) ==
    IF user_id \in DOMAIN users THEN users[user_id] ELSE NoItem

\* guard 1 left out
NeverAlreadySent(meeting) == FALSE

\* line 112: idempotency guard 1
NotificationAlreadySent(meeting) == meeting.notification_sent_at # NoTime

\* guard 2 that lets scheduled and started meetings through
ScheduledStillValid(meeting) ==
    meeting.status \in {"discovered", "classified", "prep_scheduled", "prep_in_progress"}

\* line 130: idempotency guard 2
ValidStateForTrigger(meeting) == meeting.status \in {"discovered", "classified"}

\* a missing meeting or user reported as an internal error
NotFoundAsInternalError(event, get_ok, meeting, user_ok, user) ==
    IF event.meeting_id = NoId \/ event.user_id = NoId THEN ValidationError
    ELSE IF ~get_ok \/ meeting = NoItem THEN InternalError
    ELSE IF ~user_ok \/ user = NoItem THEN InternalError
    ELSE IF NotificationAlreadySent(meeting) THEN AlreadySent
    ELSE IF ~ValidStateForTrigger(meeting) THEN InvalidState
    ELSE NoItem

\* lines 75-145 as a function of what the two reads return: the response that
\* ends the invocation, or NoItem when both guards pass
EarlyResponse(event, get_ok, meeting, user_ok, user) ==
    IF event.meeting_id = NoId \/ event.user_id = NoId THEN ValidationError
    ELSE IF ~get_ok THEN InternalError
    ELSE IF meeting = NoItem THEN ValidationError
    ELSE IF ~user_ok THEN InternalError
    ELSE IF user = NoItem THEN ValidationError
    ELSE IF NotificationAlreadySent(meeting) THEN AlreadySent
    ELSE IF ~ValidStateForTrigger(meeting) THEN InvalidState
    ELSE NoItem

\* the send placed before the status write
SendFirst(early) == IF early = NoItem THEN "send" ELSE "done"

\* lines 147-148: what follows the guards is the write of the new status
AfterGuards(early) == IF early = NoItem THEN "update" ELSE "done"

\* one delivery of an event: lines 75-145
HandlerInvoke(h) ==
    /\ ~Returning
    /\ hs[h].pc = "idle"
    /\ invocations < MaxInvocations
    /\ h = "h2" => hs["h1"].pc # "idle"
    /\ invocations' = invocations + 1
    /\ \E event \in bus \cup MalformedEvents, get_ok \in Oks, user_ok \in Oks :
          LET meeting == fetch_meeting(event.meeting_id)
              user == fetch_user(event.user_id)
              early == EarlyResponse(event, get_ok, meeting, user_ok, user)
              read == event.meeting_id # NoId /\ event.user_id # NoId /\ get_ok
          IN  /\ get_ok \/ user_ok
              /\ faults' = faults + Fault(get_ok) + Fault(user_ok)
              /\ hs' = [NotAlone(hs) EXCEPT ![h] =
                          [HandlerIdle EXCEPT
                              !.pc = AfterGuards(early),
                              !.event = event,
                              !.loaded = IF read THEN meeting ELSE NoItem,
                              !.read_failed =
                                  /\ event.meeting_id # NoId
                                  /\ event.user_id # NoId
                                  /\ ~get_ok \/ (meeting # NoItem /\ ~user_ok),
                              !.meeting = IF early = NoItem THEN meeting ELSE NoItem,
                              !.user = IF read /\ meeting # NoItem /\ user_ok
                                       THEN user ELSE NoItem,
                              !.response = early,
                              !.alone = /\ scan.pc = "idle"
                                        /\ \A g \in Handlers : hs[g].pc = "idle",
                              !.prev = hist.last,
                              !.seen = IF event.meeting_id \in MeetingIds
                                       THEN hist.published[event.meeting_id] ELSE 0]]
    /\ UNCHANGED <<classifier, notifier, users, calendar, now, meetings, bus, scan, scans, hist>>

\* the status assignment left out
StatusNotAssigned(meeting, new_status) == meeting

\* update_meeting_status, lines 334-336: the in-memory change
WithStatus(meeting, new_status) == [meeting EXCEPT !.status = new_status]

\* line 148: update_meeting_status(meeting, PREP_SCHEDULED); a failed put ends
\* the invocation with a 500
HandlerUpdateStatus(h) ==
    /\ ~Returning
    /\ hs[h].pc = "update"
    /\ LET meeting == WithStatus(hs[h].meeting, "prep_scheduled")
       IN  \E put_ok \in Oks :
              /\ faults' = faults + Fault(put_ok)
              /\ IF put_ok
                 THEN /\ meetings' = [meetings EXCEPT ![meeting.meeting_id] = meeting]
                      /\ hs' = [hs EXCEPT ![h].pc = "send",
                                          ![h].meeting = meeting,
                                          ![h].ops = Append(@, <<"put", meeting.status>>)]
                 ELSE /\ meetings' = meetings
                      /\ hs' = [hs EXCEPT ![h].pc = "done",
                                          ![h].meeting = meeting,
                                          ![h].ops = Append(@, <<"put_failed", meeting.status>>),
                                          ![h].response = InternalError]
    /\ UNCHANGED <<classifier, notifier, users, calendar, now, bus, scan, scans, invocations, hist>>

\* the provider credentials found in the environment of an invocation: all
\* channels configured, Slack not configured, nothing configured
Deployments == {NotificationChannel, {"sms", "email"}, {}}

\* SMS offered whether or not the user has a phone number
AllChannelsInOrder(user) == <<"slack", "sms", "email">>

\* get_notification_channels
get_notification_channels(user) ==
    <<"slack">> \o (IF user.phone_number # NoId THEN <<"sms">> ELSE <<>>) \o <<"email">>

\* a test for None in place of the truth test
MessageIdNotNone(result) == result.message_id # NoId

\* line 158: a message id that is neither None nor empty
HasMessageId(result) == result.message_id # NoId /\ result.message_id # EmptyId

RECURSIVE Attempts(_)
Attempts(attempted) ==
    IF attempted = <<>> THEN <<>>
    ELSE <<(<<"attempt", Head(attempted)>>)>> \o Attempts(Tail(attempted))

\* lines 150-155: the channels, a NotificationService built from the
\* environment, and the send; with no message id the invocation ends here
HandlerSend(h) ==
    /\ ~Returning
    /\ hs[h].pc = "send"
    /\ \E enabled \in Deployments,
          outcome \in [NotificationChannel -> {"ok", "ok_no_id", "error"}] :
          /\ \A ch \in NotificationChannel : outcome[ch] \in ProviderOutcomes(ch)
          /\ LET channels == get_notification_channels(hs[h].user)
                 result == send_prep_notification(hs[h].user, channels, enabled, outcome)
                 m == hs[h].meeting.meeting_id
             IN  /\ hs' = [hs EXCEPT
                             ![h].pc = IF ~result.raised /\ HasMessageId(result)
                                       THEN "save" ELSE "done",
                             ![h].channels = channels,
                             ![h].enabled = enabled,
                             ![h].result = result,
                             ![h].ops = @ \o Attempts(result.attempted),
                             ![h].response = IF result.raised THEN ValidationError
                                             ELSE IF HasMessageId(result) THEN @
                                             ELSE Sent]
                 /\ hist' = [hist EXCEPT
                               !.calls[m] = @ + 1,
                               !.delivered[m] = @ + Len(result.delivered_channels),
                               !.failed = IF ~result.raised /\ result.status = "failed"
                                          THEN @ \cup {m} ELSE @,
                               !.stopped = IF result.raised THEN @ \cup {m} ELSE @,
                               !.buttons = IF result.delivered_channels = <<"slack">>
                                           THEN @ \cup {m} ELSE @]
    /\ UNCHANGED <<classifier, notifier, users, calendar, now, meetings, bus, scan, scans, invocations, faults>>

\* the runtime ends the invocation (time limit, memory, lost host) after the
\* write of line 148 and before the Notifier is called: nothing is returned
\* and no handler of lines 184-213 runs
HandlerCrash(h) ==
    /\ ~Returning
    /\ hs[h].pc = "send"
    /\ faults < MaxFaults
    /\ faults' = faults + 1
    /\ hs' = [NotAlone(hs) EXCEPT ![h] = HandlerIdle]
    /\ hist' = [hist EXCEPT
                  !.stopped = @ \cup {hs[h].meeting.meeting_id},
                  !.last = NoItem]
    /\ UNCHANGED <<classifier, notifier, users, calendar, now, meetings, bus, scan, scans, invocations>>

\* lines 159-161: the stamp, in memory
Stamped(meeting, message_id, t) ==
    [meeting EXCEPT !.notification_id = message_id, !.notification_sent_at = t]

\* lines 162-182 and 200-213: the response after save_meeting; the
\* ClientError of a failed put reaches "except Exception" and is answered
\* with a 500
SaveResponse(put_ok) == IF put_ok THEN Sent ELSE InternalError

\* lines 158-182: the stamp and save_meeting; a failed put ends with a 500
HandlerSave(h) ==
    /\ ~Returning
    /\ hs[h].pc = "save"
    /\ LET meeting == Stamped(hs[h].meeting, hs[h].result.message_id, now)
       IN  \E put_ok \in Oks :
              /\ faults' = faults + Fault(put_ok)
              /\ IF put_ok
                 THEN /\ meetings' = [meetings EXCEPT ![meeting.meeting_id] = meeting]
                      /\ hs' = [hs EXCEPT ![h].pc = "done",
                                          ![h].meeting = meeting,
                                          ![h].ops = Append(@, <<"put", "stamp">>),
                                          ![h].response = SaveResponse(put_ok)]
                      /\ hist' = hist
                 ELSE /\ meetings' = meetings
                      /\ hs' = [hs EXCEPT ![h].pc = "done",
                                          ![h].meeting = meeting,
                                          ![h].ops = Append(@, <<"put_failed", "stamp">>),
                                          ![h].response = SaveResponse(put_ok)]
                      /\ hist' = [hist EXCEPT !.unstamped = @ \cup {meeting.meeting_id}]
    /\ UNCHANGED <<classifier, notifier, users, calendar, now, bus, scan, scans, invocations>>

\* the invocation ends
HandlerReturn(h) ==
    /\ hs[h].pc = "done"
    /\ hs' = [hs EXCEPT ![h] = HandlerIdle]
    /\ hist' = [hist EXCEPT
                  !.last = IF hs[h].alone
                           THEN [event |-> hs[h].event, called |-> hs[h].result # NoItem]
                           ELSE NoItem,
                  !.pending = IF /\ hs[h].event \in bus
                                 /\ hs[h].seen = hist.published[hs[h].event.meeting_id]
                              THEN @ \ {hs[h].event.meeting_id} ELSE @]
    /\ UNCHANGED <<classifier, notifier, users, calendar, now, meetings, bus, scan, scans, invocations, faults>>

(* ------------------- slack_bot: the "Start Prep" button ---------------- *)
\* handle_start_prep, lines 418-421: the in-memory change
WithSession(meeting, session_id) ==
    [meeting EXCEPT !.status = "prep_in_progress", !.chat_session_id = session_id]

\* handle_start_prep: the user clicks the button of a delivered Slack message;
\* a meeting that has a chat session is left alone.  The get and the put are
\* taken as one step.
handle_start_prep ==
    /\ ~Returning
    /\ \E m \in hist.buttons :
          /\ meetings[m] # NoItem
          /\ meetings[m].chat_session_id = NoId
          /\ meetings' = [meetings EXCEPT ![m] = WithSession(@, "session-1")]
    /\ hs' = NotAlone(hs)
    /\ hist' = [hist EXCEPT !.last = NoItem]
    /\ UNCHANGED <<classifier, notifier, users, calendar, now, bus, scan, scans, invocations, faults>>

(* --------------------------- the whole system ------------------------- *)
Next ==
    \/ Tick
    \/ ScanStart
    \/ ProcessUserBegin
    \/ SyncLookup
    \/ SyncPut
    \/ SyncTrigger
    \/ ProcessUserReturn
    \/ ScanFinish
    \/ ScanReturn
    \/ \E h \in Handlers : HandlerInvoke(h)
    \/ \E h \in Handlers : HandlerUpdateStatus(h)
    \/ \E h \in Handlers : HandlerSend(h)
    \/ \E h \in Handlers : HandlerCrash(h)
    \/ \E h \in Handlers : HandlerSave(h)
    \/ \E h \in Handlers : HandlerReturn(h)
    \/ handle_start_prep

Spec == Init /\ [][Next]_vars

(* ----------------- the Trigger Handler after the first scan ------------ *)
\* the row that the first scan, at hour 0, stores for the user's meeting
FirstSynced ==
    WithCreatedAt(Classified(event_to_meeting("e1", "u1", 0), 0), NoItem, 0)

\* the state in which that scan has returned: the row is stored, its
\* PrepTriggerEvent is published and no invocation has started
InitHandler ==
    /\ users \in {SoloUsers, SoloUsersNoPhone}
    /\ calendar = SoloCalendar
    /\ now = 0
    /\ meetings = [m \in MeetingIds |->
                      IF m = FirstSynced.meeting_id THEN FirstSynced ELSE NoItem]
    /\ bus = {PrepTriggerEvent(FirstSynced)}
    /\ scan = ScanIdle
    /\ scans = 1
    /\ hs = [h \in Handlers |-> HandlerIdle]
    /\ invocations = 0
    /\ faults = 0
    /\ notifier = NotifierIdle
    /\ classifier = ClassifierIdle
    /\ hist = [HistInit EXCEPT
                  !.published[FirstSynced.meeting_id] = 1,
                  !.first_created[FirstSynced.meeting_id] = FirstSynced.created_at,
                  !.pending = {FirstSynced.meeting_id}]

\* deliveries of the event, clicks and time, with no further scan
NextHandler ==
    \/ Tick
    \/ \E h \in Handlers : HandlerInvoke(h)
    \/ \E h \in Handlers : HandlerUpdateStatus(h)
    \/ \E h \in Handlers : HandlerSend(h)
    \/ \E h \in Handlers : HandlerCrash(h)
    \/ \E h \in Handlers : HandlerSave(h)
    \/ \E h \in Handlers : HandlerReturn(h)
    \/ handle_start_prep

SpecHandler == InitHandler /\ [][NextHandler]_vars

(* --------------- the Sync Engine and the Scan Coordinator ------------- *)
\* process_user_calendar called for one user of the table, connected or not,
\* by a caller other than lambda_handler
SyncUserCall ==
    /\ ~Returning
    /\ scan.pc = "idle"
    /\ scans < MaxScans
    /\ scans' = scans + 1
    /\ \E u \in UserIds :
          scan' = [ScanIdle EXCEPT !.pc = "next_user", !.users = <<u>>,
                                  !.direct = TRUE,
                                  !.trace = <<[op |-> "list", users |-> <<u>>]>>]
    /\ hs' = NotAlone(hs)
    /\ hist' = [hist EXCEPT
                  !.orderly = /\ @
                              /\ AllInWindow(now)
                              /\ hist.pending = {},
                  !.last = NoItem]
    /\ UNCHANGED <<classifier, notifier, users, calendar, now, meetings, bus, invocations, faults>>

\* two users with a common meeting, the second with or without a connected
\* calendar; nothing stored or published yet
InitSync ==
    /\ users \in {TeamUsers(connected) : connected \in BOOLEAN}
    /\ calendar = TeamCalendar
    /\ now = 0
    /\ meetings = [m \in MeetingIds |-> NoItem]
    /\ bus = {}
    /\ scan = ScanIdle
    /\ scans = 0
    /\ hs = [h \in Handlers |-> HandlerIdle]
    /\ invocations = 0
    /\ faults = 0
    /\ notifier = NotifierIdle
    /\ classifier = ClassifierIdle
    /\ hist = HistInit

\* scans, direct syncs of one user and time, with no handler invocation
NextSync ==
    \/ Tick
    \/ ScanStart
    \/ SyncUserCall
    \/ ProcessUserBegin
    \/ SyncLookup
    \/ SyncPut
    \/ SyncTrigger
    \/ ProcessUserReturn
    \/ ScanFinish
    \/ ScanReturn

SpecSync == InitSync /\ [][NextSync]_vars

(* ------------- one scan of two users and the Trigger Handler ---------- *)
\* two users with connected calendars who attend a common meeting; one scan
\* is run, its events are delivered, and no store, calendar, event-bus or
\* provider call fails
InitShared ==
    /\ users = TeamUsers(TRUE)
    /\ calendar = TeamCalendar
    /\ now = 0
    /\ meetings = [m \in MeetingIds |-> NoItem]
    /\ bus = {}
    /\ scan = ScanIdle
    /\ scans = MaxScans - 1
    /\ hs = [h \in Handlers |-> HandlerIdle]
    /\ invocations = 0
    /\ faults = MaxFaults
    /\ notifier = NotifierIdle
    /\ classifier = ClassifierIdle
    /\ hist = HistInit

NextShared ==
    \/ Tick
    \/ ScanStart
    \/ ProcessUserBegin
    \/ SyncLookup
    \/ SyncPut
    \/ SyncTrigger
    \/ ProcessUserReturn
    \/ ScanFinish
    \/ ScanReturn
    \/ \E h \in Handlers : HandlerInvoke(h)
    \/ \E h \in Handlers : HandlerUpdateStatus(h)
    \/ \E h \in Handlers : HandlerSend(h)
    \/ \E h \in Handlers : HandlerSave(h)
    \/ \E h \in Handlers : HandlerReturn(h)

SpecShared == InitShared /\ [][NextShared]_vars

(* --------------------------- the Notifier alone ----------------------- *)
\* the channel lists a caller can pass: every order of every set of channels
ChannelLists ==
    {s \in UNION {[1..n -> NotificationChannel] : n \in 0..Cardinality(NotificationChannel)} :
        \A i, j \in DOMAIN s : s[i] = s[j] => i = j}

\* send_prep_notification(meeting, user, channels) on a NotificationService
\* with the drawn channels enabled
NotifierSend ==
    /\ notifier.pc = "called"
    /\ notifier' = [notifier EXCEPT
                      !.pc = "returned",
                      !.result = send_prep_notification(notifier.user, notifier.channels,
                                                        notifier.enabled, notifier.outcome)]
    /\ UNCHANGED <<classifier, users, calendar, now, meetings, bus, scan, scans, hs,
                   invocations, faults, hist>>

\* a call with any user, channel list, set of enabled channels and provider
\* behaviour
InitNotifier ==
    /\ users = SoloUsers
    /\ calendar = SoloCalendar
    /\ now = 0
    /\ meetings = [m \in MeetingIds |->
                      IF m = FirstSynced.meeting_id THEN FirstSynced ELSE NoItem]
    /\ bus = {}
    /\ scan = ScanIdle
    /\ scans = 0
    /\ hs = [h \in Handlers |-> HandlerIdle]
    /\ invocations = 0
    /\ faults = 0
    /\ hist = HistInit
    /\ classifier = ClassifierIdle
    /\ \E u \in UserIds, channels \in ChannelLists,
          enabled \in SUBSET NotificationChannel,
          outcome \in [NotificationChannel -> {"ok", "ok_no_id", "error", "timeout"}] :
          /\ \A ch \in NotificationChannel : outcome[ch] \in CallOutcomes(ch)
          /\ notifier = [pc |-> "called", user |-> users[u], channels |-> channels,
                         enabled |-> enabled, outcome |-> outcome, result |-> NoItem]

NextNotifier == NotifierSend

SpecNotifier == InitNotifier /\ [][NextNotifier]_vars

(* -------------------------- the Classifier alone ---------------------- *)
\* the characters of the titles: those of the keywords, in either case where
\* they have one, and one that is in no keyword
TitleChars == {"L", "t", "1", ":", "s", "x"}

Titles == UNION {[1..n -> TitleChars] : n \in 0..MaxTitleLen}

\* prep_timing sections: the configured one, one without the unknown type,
\* one with the unknown type and one other
PrepTimings ==
    {PrepTiming,
     [t \in {"leadership_team"} |-> 3],
     [t \in {"one_on_one", "unknown"} |-> IF t = "unknown" THEN 12 ELSE 1]}

\* the calls: classify_meeting on any title and attendee count,
\* get_prep_hours on any type under any prep_timing, should_trigger_prep on
\* any type, start and current time
ClassifierCalls ==
    {[ClassifierIdle EXCEPT !.pc = "called", !.op = "classify_meeting",
                            !.meeting = [title |-> title,
                                         attendees |-> [i \in 1..n |-> "a"]]] :
        title \in Titles, n \in 0..MaxAttendees}
    \cup
    {[ClassifierIdle EXCEPT !.pc = "called", !.op = "get_prep_hours",
                            !.prep_timing = prep_timing,
                            !.meeting_type = meeting_type] :
        prep_timing \in PrepTimings, meeting_type \in MeetingType}
    \cup
    {[ClassifierIdle EXCEPT !.pc = "called", !.op = "should_trigger_prep",
                            !.meeting = [meeting_type |-> meeting_type,
                                         start_time |-> start_time],
                            !.current_time = current_time] :
        meeting_type \in MeetingType, start_time \in 0..MaxStart,
        current_time \in 0..(MaxStart + 1)}

ClassifyMeetingCall ==
    /\ classifier.pc = "called"
    /\ classifier.op = "classify_meeting"
    /\ classifier' = [classifier EXCEPT
                        !.pc = "returned",
                        !.result = classify_meeting(classifier.meeting)]
    /\ UNCHANGED <<notifier, users, calendar, now, meetings, bus, scan, scans, hs,
                   invocations, faults, hist>>

GetPrepHoursCall ==
    /\ classifier.pc = "called"
    /\ classifier.op = "get_prep_hours"
    /\ classifier' = [classifier EXCEPT
                        !.pc = "returned",
                        !.result = GetPrepHours(classifier.prep_timing,
                                                classifier.meeting_type)]
    /\ UNCHANGED <<notifier, users, calendar, now, meetings, bus, scan, scans, hs,
                   invocations, faults, hist>>

ShouldTriggerPrepCall ==
    /\ classifier.pc = "called"
    /\ classifier.op = "should_trigger_prep"
    /\ classifier' = [classifier EXCEPT
                        !.pc = "returned",
                        !.result = should_trigger_prep(classifier.meeting,
                                                       classifier.current_time)]
    /\ UNCHANGED <<notifier, users, calendar, now, meetings, bus, scan, scans, hs,
                   invocations, faults, hist>>

InitClassifier ==
    /\ users = SoloUsers
    /\ calendar = SoloCalendar
    /\ now = 0
    /\ meetings = [m \in MeetingIds |-> NoItem]
    /\ bus = {}
    /\ scan = ScanIdle
    /\ scans = 0
    /\ hs = [h \in Handlers |-> HandlerIdle]
    /\ invocations = 0
    /\ faults = 0
    /\ notifier = NotifierIdle
    /\ hist = HistInit
    /\ classifier \in ClassifierCalls

NextClassifier ==
    \/ ClassifyMeetingCall
    \/ GetPrepHoursCall
    \/ ShouldTriggerPrepCall

SpecClassifier == InitClassifier /\ [][NextClassifier]_vars

(* ------------------------------- claims ------------------------------- *)
\* the statuses in the order of the meeting state machine
StatusOrder ==
    <<"discovered", "classified", "prep_scheduled", "prep_in_progress",
      "prep_completed", "completed">>

Rank(status) == CHOOSE i \in 1..Len(StatusOrder) : StatusOrder[i] = status

\* a status may stay, move one step along the machine, or become cancelled
\* from a non-terminal status
Follows(old, new) ==
    \/ new = old
    \/ new = "cancelled" /\ old \notin {"completed", "cancelled"}
    \/ old # "cancelled" /\ new # "cancelled" /\ Rank(new) = Rank(old) + 1

Sequential == hist.orderly /\ faults = 0

\* a store write of the Sync Engine, or of a Trigger Handler invocation that
\* runs with no scan, click or other invocation beside it
QuietWrite ==
    \/ SyncPut
    \/ \E h \in Handlers : hs[h].alone /\ (HandlerUpdateStatus(h) \/ HandlerSave(h))

\* C2: when every scan so far started with the meeting inside its prep window
\* and after the Trigger Handler had run to completion on each published event,
\* and no call failed, exactly one PrepTriggerEvent has been published for the
\* meeting at the end of every scan.
C2_ExactlyOnePublished ==
    (Sequential /\ scans >= 1 /\ scan.pc = "idle")
        => \A m \in MeetingIds : meetings[m] # NoItem => hist.published[m] = 1

\* the invocation in slot h is the second of two in sequence with the same
\* event: the one before it ran alone and called the Notifier, nothing ran
\* between or beside them, and h has read the meeting and the user
SecondInSequence(h) ==
    /\ hs[h].pc = "done"
    /\ hs[h].alone
    /\ hs[h].prev # NoItem
    /\ hs[h].prev.event = hs[h].event
    /\ hs[h].prev.called
    /\ hs[h].loaded # NoItem
    /\ hs[h].user # NoItem

C4_OneRowFirstCreatedAt ==
    /\ \A m1, m2 \in MeetingIds :
          (/\ meetings[m1] # NoItem
           /\ meetings[m2] # NoItem
           /\ meetings[m1].user_id = meetings[m2].user_id
           /\ meetings[m1].external_id = meetings[m2].external_id) => m1 = m2
    /\ \A m \in MeetingIds :
          meetings[m] # NoItem =>
              /\ meetings[m].meeting_id = m
              /\ meetings[m].created_at = hist.first_created[m]

TotalFailure(h) ==
    /\ hs[h].pc = "done"
    /\ hs[h].alone
    /\ hs[h].result # NoItem
    /\ ~hs[h].result.raised
    /\ hs[h].result.status = "failed"

\* the handler's part of C11: such an invocation returns the 200 result, its
\* result has no delivered channel, and the stored meeting is prep_scheduled
\* with no notification_sent_at
C11_FailedResultLeavesScheduled ==
    \A h \in Handlers :
        TotalFailure(h) =>
            LET m == hs[h].meeting.meeting_id
            IN  /\ hs[h].response = Sent
                /\ hs[h].result.delivered_channels = <<>>
                /\ meetings[m].status = "prep_scheduled"
                /\ meetings[m].notification_sent_at = NoTime

\* a Notifier call that attempts a channel, made by an invocation that runs
\* alone, for a meeting that already had a call in which every channel failed
RetryAfterTotalFailure ==
    \E h \in Handlers :
        /\ hs[h].pc = "send"
        /\ hs[h].alone
        /\ hs[h].meeting.meeting_id \in hist.failed
        /\ hs'[h].pc # "send"
        /\ hs'[h].result.attempted # <<>>

InvalidEvent(event) ==
    \/ event.meeting_id = NoId
    \/ event.user_id = NoId
    \/ event.meeting_id \notin MeetingIds
    \/ meetings[event.meeting_id] = NoItem
    \/ event.user_id \notin UserIds

StatusAtSync ==
    IF scan.existing_meeting = NoItem
    THEN scan.meeting.status
    ELSE scan.existing_meeting.status

LaterStageStatus ==
    {"prep_scheduled", "prep_in_progress", "prep_completed", "completed", "cancelled"}

SyncAt(i) == i \in 1..Len(scan.trace) /\ scan.trace[i].op = "sync"

\* C15: syncing a user whose calendar is not connected returns
\* meetings_synced = 0 and preps_triggered = 0 at once: between the begin of
\* the sync and its return there is no calendar fetch, no store write and no
\* publish, and no fetch, write or publish of the scan is made for that user.
C15_UnconnectedUserSkipped ==
    /\ \A i \in 1..Len(scan.trace) :
          (SyncAt(i) /\ ~users[scan.trace[i].user].calendar_connected) =>
              /\ i < Len(scan.trace)
              /\ scan.trace[i + 1] =
                    [op |-> "return", user |-> scan.trace[i].user,
                     result |-> [meetings_synced |-> 0, preps_triggered |-> 0]]
    /\ \A i \in 1..Len(scan.trace) :
          scan.trace[i].op \in {"fetch", "put", "publish"} =>
              users[scan.trace[i].user].calendar_connected

\* a direct sync of the user without a calendar has returned zeros while a
\* meeting of the other user is stored
C15_Witness ==
    /\ scan.pc = "done"
    /\ scan.direct
    /\ Len(scan.trace) = 3
    /\ SyncAt(2)
    /\ ~users[scan.trace[2].user].calendar_connected
    /\ scan.response = [meetings_synced |-> 0, preps_triggered |-> 0]
    /\ \E m \in MeetingIds : meetings[m] # NoItem

\* the begin of the sync that position j of the trace belongs to
SegmentStart(j) ==
    CHOOSE i \in 1..j : SyncAt(i) /\ \A k \in (i + 1)..j : ~SyncAt(k)

\* the put entries of the trace between positions i and j
PutsBetween(i, j) ==
    LET IsPut(e) == e.op = "put"
    IN  SelectSeq(SubSeq(scan.trace, i, j), IsPut)

\* position j of the trace is the return of a sync that fetched the calendar
FetchedReturnAt(j) ==
    /\ j \in 1..Len(scan.trace)
    /\ scan.trace[j].op = "return"
    /\ scan.trace[SegmentStart(j) + 1].op = "fetch"

Entries(op) ==
    LET Is(e) == e.op = op
    IN  SelectSeq(scan.trace, Is)

\* the sum of one counter over the results that the syncs returned
RECURSIVE SumSynced(_)
SumSynced(returns) ==
    IF returns = <<>> THEN 0
    ELSE Head(returns).result.meetings_synced + SumSynced(Tail(returns))

RECURSIVE SumTriggered(_)
SumTriggered(returns) ==
    IF returns = <<>> THEN 0
    ELSE Head(returns).result.preps_triggered + SumTriggered(Tail(returns))

\* a scan that listed its users has computed its response
ScanDone == scan.pc = "done" /\ ~scan.direct /\ scan.trace # <<>>

\* C17: in one scan every listed user is handled exactly once, in the order
\* listed; a user whose sync raises is counted in errors and not in
\* users_processed and the users after it are still synced; the summary has
\* users_processed + errors = number of listed users, and its meetings_synced
\* and preps_triggered are the sums of the results of the users whose sync
\* returned.
C17_EveryListedUserHandledOnce ==
    ScanDone =>
        LET listed == scan.trace[1].users
            syncs == Entries("sync")
            returns == Entries("return")
            raises == Entries("raise")
        IN  /\ [k \in 1..Len(syncs) |-> syncs[k].user] = listed
            /\ scan.response.statusCode = 200
            /\ scan.response.users_processed = Len(returns)
            /\ scan.response.errors = Len(raises)
            /\ scan.response.users_processed + scan.response.errors = Len(listed)
            /\ scan.response.meetings_synced = SumSynced(returns)
            /\ scan.response.preps_triggered = SumTriggered(returns)

\* a scan of two users is done in which the first user's sync raised and the
\* second user's sync stored a meeting
C17_Witness ==
    /\ ScanDone
    /\ Len(scan.trace[1].users) = 2
    /\ scan.trace[3].op = "fetch"
    /\ ~scan.trace[3].ok
    /\ scan.response.errors = 1
    /\ scan.response.users_processed = 1
    /\ scan.response.meetings_synced >= 1

\* the Notifier call has returned a NotificationResult
Returned ==
    /\ notifier.pc = "returned"
    /\ ~notifier.result.raised

\* the channels of the call's list that its service has enabled, in order
Filtered ==
    LET IsEnabled(ch) == ch \in notifier.enabled
    IN  SelectSeq(notifier.channels, IsEnabled)

\* the send on this channel fails in the call: the provider answers with an
\* error or not at all, or the channel is SMS and the user has no phone number
ChannelFails(ch) ==
    \/ notifier.outcome[ch] \in {"error", "timeout"}
    \/ ch = "sms" /\ notifier.user.phone_number = NoId

\* the position in the filtered list of the first channel that does not fail,
\* or the length of the list when every channel fails
LastAttempt ==
    IF \E k \in 1..Len(Filtered) : ~ChannelFails(Filtered[k])
    THEN CHOOSE k \in 1..Len(Filtered) :
            /\ ~ChannelFails(Filtered[k])
            /\ \A j \in 1..(k - 1) : ChannelFails(Filtered[j])
    ELSE Len(Filtered)

\* C18: the Notifier attempts the channels strictly in the order of the
\* filtered list; the channels attempted are the prefix of that list ending at
\* the first success, or the whole list when none succeeds; no channel after
\* the first success is attempted, and delivered_channels never has more than
\* one element.
C18_AttemptsArePrefixToFirstSuccess ==
    Returned =>
        LET r == notifier.result
        IN  /\ r.attempted = SubSeq(Filtered, 1, LastAttempt)
            /\ Len(r.delivered_channels) <= 1
            /\ r.delivered_channels # <<>> =>
                  /\ r.delivered_channels = <<Filtered[LastAttempt]>>
                  /\ ~ChannelFails(Filtered[LastAttempt])
            /\ r.delivered_channels = <<>> =>
                  \A k \in 1..Len(Filtered) : ChannelFails(Filtered[k])

\* a call with three channels enabled, in an order other than the default,
\* whose first channel failed and whose second delivered
C18_Witness ==
    /\ Returned
    /\ Filtered = <<"email", "slack", "sms">>
    /\ notifier.result.attempted = <<"email", "slack">>
    /\ notifier.result.delivered_channels = <<"slack">>

\* in the filtered list the channels up to position k fail and the channel at
\* k + 1 does not
FailsThenSucceeds(k) ==
    /\ k \in 1..(Len(Filtered) - 1)
    /\ \A j \in 1..k : ChannelFails(Filtered[j])
    /\ ~ChannelFails(Filtered[k + 1])

\* C19: when in the call's channel list a channel A fails (provider error,
\* timeout or missing phone number) and the next channel B succeeds, the
\* result has status success, delivered_channels = [B], A as a key of
\* failed_channels with its error text, message_id = B's provider message id,
\* and any channel after B is neither attempted nor a key of failed_channels.
C19_FallbackResult ==
    Returned =>
        \A k \in 1..Len(Filtered) :
            FailsThenSucceeds(k) =>
                LET r == notifier.result
                    A == Filtered[k]
                    B == Filtered[k + 1]
                IN  /\ r.status = "success"
                    /\ r.delivered_channels = <<B>>
                    /\ A \in DOMAIN r.failed_channels
                    /\ r.failed_channels[A] =
                          IF A = "sms" /\ notifier.user.phone_number = NoId
                          THEN "User has no phone number"
                          ELSE IF notifier.outcome[A] = "timeout" THEN "timed out"
                          ELSE IF A = "slack" THEN "Slack API error"
                          ELSE IF A = "sms" THEN "Twilio API error"
                          ELSE "SES API error"
                    /\ r.message_id = ProviderMessageId(B, notifier.outcome[B])
                    /\ \A j \in (k + 2)..Len(Filtered) :
                          /\ \A i \in 1..Len(r.attempted) : r.attempted[i] # Filtered[j]
                          /\ Filtered[j] \notin DOMAIN r.failed_channels

\* a call for the user without a phone number in which SMS came first and
\* failed, email came next and delivered, and Slack came last
C19_Witness ==
    /\ Returned
    /\ Filtered = <<"sms", "email", "slack">>
    /\ notifier.user.phone_number = NoId
    /\ notifier.outcome["sms"] = "ok"
    /\ FailsThenSucceeds(1)
    /\ notifier.result.delivered_channels = <<"email">>
    /\ DOMAIN notifier.result.failed_channels = {"sms"}

\* the NotificationResults at hand: that of the Notifier call and those of the
\* Trigger Handler invocations
NotificationResults ==
    (IF Returned THEN {notifier.result} ELSE {})
        \cup {hs[h].result : h \in {g \in Handlers :
                                       hs[g].result # NoItem /\ ~hs[g].result.raised}}

C21_RaisesIffNoChannelAvailable ==
    notifier.pc = "returned" =>
        /\ notifier.result.raised <=> Filtered = <<>>
        /\ ~notifier.result.raised =>
              DOMAIN notifier.result.failed_channels =
                  {Filtered[k] : k \in {j \in 1..LastAttempt : ChannelFails(Filtered[j])}}

\* a call in which all three channels were enabled and every one failed has
\* returned a result
C21_Witness ==
    /\ Returned
    /\ Len(Filtered) = 3
    /\ \A k \in 1..3 : ChannelFails(Filtered[k])
    /\ DOMAIN notifier.result.failed_channels = NotificationChannel
    /\ notifier.result.status = "failed"

\* s is t with some elements left out
RECURSIVE IsSubsequence(_, _)
IsSubsequence(s, t) ==
    IF s = <<>> THEN TRUE
    ELSE IF t = <<>> THEN FALSE
    ELSE IF Head(s) = Head(t) THEN IsSubsequence(Tail(s), Tail(t))
    ELSE IsSubsequence(s, Tail(t))

ClassifyReturned ==
    /\ classifier.pc = "returned"
    /\ classifier.op = "classify_meeting"

\* the rule has a keyword that is a case-insensitive substring of the title
\* of the call, and the attendee count of the call is within the rule's
\* inclusive bounds, where it has them
Satisfied(rule) ==
    LET title == classifier.meeting.title
        count == Len(classifier.meeting.attendees)
    IN  /\ \E j \in 1..Len(rule.keywords) : IsSubstring(Lower(rule.keywords[j]), Lower(title))
        /\ rule.min_attendees = NoBound \/ count >= rule.min_attendees
        /\ rule.max_attendees = NoBound \/ count <= rule.max_attendees

\* C23: classify returns a type T other than unknown only if the rule of T
\* has a keyword that is a case-insensitive substring of the title and the
\* attendee count satisfies the rule's inclusive min_attendees and
\* max_attendees where present; for an empty title, or when no rule
\* satisfies both conditions, the result is unknown.
C23_ClassifiedOnlyByMatchingRule ==
    ClassifyReturned =>
        LET T == classifier.result
        IN  /\ T \in MeetingType
            /\ T # "unknown" =>
                  \E i \in 1..Len(DetectionRules) :
                      DetectionRules[i].type_name = T /\ Satisfied(DetectionRules[i])
            /\ classifier.meeting.title = <<>> => T = "unknown"
            /\ (\A i \in 1..Len(DetectionRules) : ~Satisfied(DetectionRules[i]))
                  => T = "unknown"

\* a title with a one_on_one keyword and three attendees, over the rule's
\* max_attendees = 2, has been classified unknown
C23_Witness ==
    /\ ClassifyReturned
    /\ classifier.meeting.title = <<"1", ":", "1">>
    /\ Len(classifier.meeting.attendees) = 3
    /\ classifier.result = "unknown"

\* the rule names a meeting type and is satisfied by the call
Applies(i) ==
    /\ DetectionRules[i].type_name \in MeetingType
    /\ Satisfied(DetectionRules[i])

\* C24: when the meeting satisfies the rules (keyword and attendee bounds) of
\* one or more types, classify returns the type of the rule that comes first
\* in the configured order among those satisfied; a rule before it that
\* matches on keyword but fails its attendee bounds does not stop the later
\* rules from being evaluated.
C24_FirstSatisfiedRuleWins ==
    (ClassifyReturned /\ \E i \in 1..Len(DetectionRules) : Applies(i)) =>
        LET first == CHOOSE i \in 1..Len(DetectionRules) :
                        Applies(i) /\ \A k \in 1..(i - 1) : ~Applies(k)
        IN  classifier.result = DetectionRules[first].type_name

\* a meeting that satisfies the rules of two types has got the type of the
\* earlier rule
C24_Witness ==
    /\ ClassifyReturned
    /\ Applies(1)
    /\ Applies(4)
    /\ DetectionRules[1].type_name # DetectionRules[4].type_name
    /\ classifier.result = DetectionRules[1].type_name

\* a meeting whose title has the keyword of the first rule but whose attendee
\* count is below that rule's minimum has got the type of a later rule
C24_WitnessLaterRule ==
    /\ ClassifyReturned
    /\ KeywordMatch(DetectionRules[1], Lower(classifier.meeting.title))
    /\ ~Applies(1)
    /\ Applies(4)
    /\ classifier.result = DetectionRules[4].type_name

\* the should_trigger_prep call has returned
TriggerCheckReturned ==
    /\ classifier.pc = "returned"
    /\ classifier.op = "should_trigger_prep"

\* the lead hours of the type of the call's meeting under the configured
\* prep_timing
LeadHours ==
    IF classifier.meeting.meeting_type \in DOMAIN PrepTiming
    THEN PrepTiming[classifier.meeting.meeting_type]
    ELSE PrepTiming["unknown"]

\* C25: for a meeting with start S and lead hours H of its type,
\* should_trigger_prep(meeting, now) is true exactly when S - H <= now < S:
\* true at S - H and one clock step before S, false at S, one step before
\* S - H, and at any time after S.
C25_WindowIsHalfOpen ==
    TriggerCheckReturned =>
        LET S == classifier.meeting.start_time
            H == LeadHours
            t == classifier.current_time
        IN  /\ classifier.result <=> (S - H <= t /\ t < S)
            /\ t = S - H => classifier.result
            /\ t = S - 1 => classifier.result
            /\ t = S => ~classifier.result
            /\ t = S - H - 1 => ~classifier.result
            /\ t > S => ~classifier.result

\* a check at the first hour of the window of a meeting with a two-hour lead
\* has returned true
C25_Witness ==
    /\ TriggerCheckReturned
    /\ LeadHours = 2
    /\ classifier.current_time = classifier.meeting.start_time - 2
    /\ classifier.result = TRUE

\* a check at the start of the meeting has returned false
C25_WitnessAtStart ==
    /\ TriggerCheckReturned
    /\ classifier.current_time = classifier.meeting.start_time
    /\ classifier.result = FALSE

\* the get_prep_hours call has returned
PrepHoursReturned ==
    /\ classifier.pc = "returned"
    /\ classifier.op = "get_prep_hours"

\* C26: get_prep_hours(type) returns the configured hour count of the type
\* when one is configured; for a type with no configured value it returns
\* the configured value of unknown, and 24 when unknown is not configured
\* either.
C26_PrepHoursFallback ==
    PrepHoursReturned =>
        LET timing == classifier.prep_timing
            type == classifier.meeting_type
        IN  /\ type \in DOMAIN timing => classifier.result = timing[type]
            /\ (type \notin DOMAIN timing /\ "unknown" \in DOMAIN timing)
                  => classifier.result = timing["unknown"]
            /\ (type \notin DOMAIN timing /\ "unknown" \notin DOMAIN timing)
                  => classifier.result = 24

\* a type without a configured value has got the value configured for
\* unknown, which is not 24
C26_Witness ==
    /\ PrepHoursReturned
    /\ classifier.meeting_type \notin DOMAIN classifier.prep_timing
    /\ "unknown" \in DOMAIN classifier.prep_timing
    /\ classifier.prep_timing["unknown"] # 24
    /\ classifier.result = classifier.prep_timing["unknown"]

\* a type without a configured value has got 24 under a prep_timing that
\* does not configure unknown
C26_WitnessDefault ==
    /\ PrepHoursReturned
    /\ classifier.meeting_type \notin DOMAIN classifier.prep_timing
    /\ "unknown" \notin DOMAIN classifier.prep_timing
    /\ classifier.result = 24

\* the publish entries of the trace between positions i and j
PublishesBetween(i, j) ==
    LET IsPublish(e) == e.op = "publish"
    IN  SelectSeq(SubSeq(scan.trace, i, j), IsPublish)

\* the publishes of the sync that returned at position j
PublishesOf(j) == PublishesBetween(SegmentStart(j), j)

\* emit_prep_trigger_event raised for some meeting of the sync that returned
\* at position j
PublishFailedIn(j) ==
    \E k \in 1..Len(PublishesOf(j)) : ~PublishesOf(j)[k].ok

\* the result of a sync tells its caller that something failed
ReportsFailure(result) ==
    /\ "errors" \in DOMAIN result
    /\ result.errors > 0

\* C27 (the part that holds): a meeting whose publish raised is not counted:
\* preps_triggered is the number of publishes that succeeded.
C27_FailedPublishNotCounted ==
    \A j \in 1..Len(scan.trace) :
        scan.trace[j].op = "return" =>
            LET IsOk(e) == e.ok
            IN  scan.trace[j].result.preps_triggered =
                    Len(SelectSeq(PublishesOf(j), IsOk))

\* C27: when the event bus reports a failed entry the publish raises, the
\* meeting is not counted in preps_triggered, and the failure is visible in
\* the result returned to the caller: the sync does not return a result that
\* reports no failure, and the summary of the scan counts an error.
C27_PublishFailureVisible ==
    /\ C27_FailedPublishNotCounted
    /\ \A j \in 1..Len(scan.trace) :
          (scan.trace[j].op = "return" /\ PublishFailedIn(j))
              => ReportsFailure(scan.trace[j].result)
    /\ (ScanDone /\ \E k \in 1..Len(scan.trace) :
                       scan.trace[k].op = "publish" /\ ~scan.trace[k].ok)
          => scan.response.errors > 0

\* invocation h has read the row of a meeting for which an earlier invocation
\* stopped between the write of prep_scheduled and the first delivery, and
\* the row it read has status prep_scheduled
ReadsStoppedScheduled(h) ==
    /\ hs[h].pc # "idle"
    /\ hs[h].loaded # NoItem
    /\ hs[h].loaded.meeting_id \in hist.stopped
    /\ hs[h].loaded.status = "prep_scheduled"

C28_WitnessStatusReturned ==
    \E h \in Handlers :
        /\ hs[h].loaded # NoItem
        /\ hs[h].loaded.meeting_id \in hist.stopped
        /\ hs[h].loaded.status = "classified"
        /\ hs[h].result # NoItem
        /\ hs[h].result.delivered_channels # <<>>

\* invocation h has ended with the client-error (400) response
ReturnsValidationError(h) ==
    /\ hs[h].pc = "done"
    /\ hs[h].response = ValidationError

C29_EarlyValidationErrorWritesNothing ==
    \A h \in Handlers :
        (ReturnsValidationError(h) /\ hs[h].result = NoItem) => hs[h].ops = <<>>

\* invocation h has returned the NotificationResult of a delivery
EndsWithSuccess(h) ==
    /\ hs[h].pc = "done"
    /\ hs[h].response = Sent
    /\ hs[h].result # NoItem
    /\ ~hs[h].result.raised
    /\ hs[h].result.status = "success"

C30_SuccessWithIdIsStamped ==
    \A h \in Handlers :
        (EndsWithSuccess(h) /\ hs[h].result.message_id # EmptyId) =>
            /\ hs[h].meeting.notification_sent_at # NoTime
            /\ hs[h].ops[Len(hs[h].ops)] = <<"put", "stamp">>

\* the last thing invocation h did was the save of the stamp, which failed
SaveFailed(h) ==
    /\ hs[h].ops # <<>>
    /\ hs[h].ops[Len(hs[h].ops)] = <<"put_failed", "stamp">>

\* invocation h began, with nothing else running, after the save of the stamp
\* of the meeting it read had failed in an earlier invocation
RedeliveredAfterSaveFailure(h) ==
    /\ hs[h].pc # "idle"
    /\ hs[h].alone
    /\ hs[h].loaded # NoItem
    /\ hs[h].loaded.meeting_id \in hist.unstamped
    /\ ~SaveFailed(h)

\* C31: when a channel has delivered and the write of notification_id and
\* notification_sent_at fails, the invocation returns the internal-error
\* result and the stored meeting stays prep_scheduled with no notification
\* timestamp; a redelivery of the event finds that row (prep_in_progress if
\* the user has clicked the delivered button meanwhile) and makes no delivery
\* attempt and no write.
C31_SaveFailureLeavesScheduled ==
    \A h \in Handlers :
        /\ SaveFailed(h) =>
              /\ hs[h].pc = "done"
              /\ hs[h].response = InternalError
              /\ hs[h].result.delivered_channels # <<>>
              /\ hs[h].alone =>
                    LET stored == meetings[hs[h].meeting.meeting_id]
                    IN  /\ stored.status = "prep_scheduled"
                        /\ stored.notification_sent_at = NoTime
                        /\ stored.notification_id = NoId
        /\ RedeliveredAfterSaveFailure(h) =>
              /\ hs[h].pc = "done"
              /\ hs[h].loaded.status \in {"prep_scheduled", "prep_in_progress"}
              /\ hs[h].loaded.notification_sent_at = NoTime
              /\ hs[h].result = NoItem
              /\ hs[h].ops = <<>>

\* the event has been delivered again after a failed save and the invocation
\* was skipped at guard 2; the meeting has had its one delivery
C31_Witness ==
    \E h \in Handlers :
        /\ RedeliveredAfterSaveFailure(h)
        /\ hs[h].pc = "done"
        /\ hs[h].response = InvalidState
        /\ hist.delivered[hs[h].loaded.meeting_id] = 1

C32_WrittenRowBelongsToSyncedUser ==
    [][\A m \in MeetingIds :
          (meetings'[m] # meetings[m] /\ scan.pc = "put")
              => meetings'[m].user_id = scan.user]_vars

\* the sync is at the trigger check of a meeting whose last publish failed,
\* and the meeting is inside its prep window
RetriggerDue ==
    /\ SyncTrigger
    /\ scan.meeting.meeting_id \in hist.lost
    /\ should_trigger_prep(scan.meeting, scan.current_time)

\* the step appends a publish for the meeting to the scan's trace
PublishAttempted ==
    /\ Len(scan'.trace) = Len(scan.trace) + 1
    /\ scan'.trace[Len(scan'.trace)].op = "publish"
    /\ scan'.trace[Len(scan'.trace)].meeting = scan.meeting.meeting_id

\* C33: a failed publish is not a lost trigger: the step in which the publish
\* of an upserted, in-window meeting fails leaves the stored row as the upsert
\* wrote it, with status discovered or classified, and the next sync that
\* finds the meeting in window publishes an event for it (the event is on the
\* bus unless that publish fails too).
C33_FailedPublishIsRetriggered ==
    [][/\ (SyncTrigger /\ hist'.lost # hist.lost /\ hist.lost \subseteq hist'.lost) =>
            LET m == scan.meeting.meeting_id
            IN  /\ meetings' = meetings
                /\ meetings[m] # NoItem
                /\ meetings[m].status \in {"discovered", "classified"}
       /\ RetriggerDue =>
            /\ PublishAttempted
            /\ faults' = faults => PrepTriggerEvent(scan.meeting) \in bus'
      ]_vars

\* a meeting whose publish failed in one scan has had an event published by
\* a later scan
C33_Witness ==
    \E m \in hist.recovered :
        /\ hist.published[m] >= 1
        /\ \E ev \in bus : ev.meeting_id = m

\* invocation h calls the Notifier in this step and a channel is attempted
AttemptsDelivery(h) ==
    /\ hs[h].pc = "send"
    /\ hs'[h].pc # "send"
    /\ hs'[h].result # NoItem
    /\ hs'[h].result.attempted # <<>>

ListingFails ==
    /\ scan.pc = "idle"
    /\ scan'.pc = "done"
    /\ ~scan'.direct

FetchedBy(j) ==
    IF scan.trace[SegmentStart(j) + 1].op = "fetch"
    THEN Len(scan.trace[SegmentStart(j) + 1].meetings)
    ELSE 0

RECURSIVE SumFetched(_)
SumFetched(trace) ==
    IF trace = <<>> THEN 0
    ELSE (IF Head(trace).op = "fetch" THEN Len(Head(trace).meetings) ELSE 0)
         + SumFetched(Tail(trace))

\* C37: in every result of a user's sync and in every summary of a scan,
\* preps_triggered <= meetings_synced and meetings_synced is at most the
\* number of meetings fetched; while a sync runs, its triggered counter never
\* exceeds its synced counter.
C37_TriggeredAtMostSynced ==
    /\ \A j \in 1..Len(scan.trace) :
          scan.trace[j].op = "return" =>
              /\ scan.trace[j].result.preps_triggered
                    <= scan.trace[j].result.meetings_synced
              /\ scan.trace[j].result.meetings_synced <= FetchedBy(j)
    /\ scan.user_triggered <= scan.user_synced
    /\ ScanDone =>
          /\ scan.response.preps_triggered <= scan.response.meetings_synced
          /\ scan.response.meetings_synced <= SumFetched(scan.trace)

\* a sync has returned having triggered a meeting and synced more meetings
\* than it triggered
C37_Witness ==
    \E j \in 1..Len(scan.trace) :
        /\ scan.trace[j].op = "return"
        /\ scan.trace[j].result.preps_triggered >= 1
        /\ scan.trace[j].result.preps_triggered
              < scan.trace[j].result.meetings_synced
        /\ scan.trace[j].result.meetings_synced <= FetchedBy(j)

\* the channels of a sequence, as a set
ChannelsOf(seq) == {seq[i] : i \in 1..Len(seq)}

C38_WitnessAllFailed ==
    /\ Returned
    /\ notifier.result.delivered_channels = <<>>
    /\ DOMAIN notifier.result.failed_channels = ChannelsOf(Filtered)
    /\ notifier.result.message_id = NoId
====
